---- MODULE Spec2Model ----
(***************************************************************************)
(* Model of the CodeSnap VS Code extension (src/src/extension.ts).         *)
(*                                                                         *)
(* Text that the code inspects character by character (source code, file   *)
(* names, data URLs) is a sequence of one-character strings.  Values the   *)
(* code only passes around (theme names, language ids, colours) are        *)
(* strings.  The extension host is a single-threaded event loop: every     *)
(* action below is one run-to-completion segment of a command or handler,  *)
(* from one await to the next.                                             *)
(***************************************************************************)
EXTENDS Integers, Sequences, FiniteSets, Bags, TLC

(***************************************************************************)
(* Bounds                                                                  *)
(***************************************************************************)
MaxCaptures == 2   \* capture commands issued in one behaviour
MaxMessages == 1   \* surface-to-host messages delivered in one behaviour
MaxLen == 3        \* longest text drawn for the pure functions
MaxClicks == 2     \* button presses on the surface in one behaviour
MaxStart == 2      \* largest first line number drawn for the composer

(***************************************************************************)
(* escapeHtml                                                              *)
(***************************************************************************)
Amp == <<"&", "a", "m", "p", ";">>
Lt == <<"&", "l", "t", ";">>
Gt == <<"&", "g", "t", ";">>
Quot == <<"&", "q", "u", "o", "t", ";">>
Apos == <<"&", "#", "0", "3", "9", ";">>

\* String.prototype.replace with a global single-character pattern.
RECURSIVE ReplaceAll(_, _, _)
ReplaceAll(s, c, r) ==
  IF s = <<>> THEN <<>>
  ELSE (IF Head(s) = c THEN r ELSE <<Head(s)>>) \o ReplaceAll(Tail(s), c, r)

escapeHtmlAmpLast(text) ==
  ReplaceAll(ReplaceAll(ReplaceAll(ReplaceAll(ReplaceAll(text,
    "<", Lt), ">", Gt), "\"", Quot), "'", Apos), "&", Amp)

escapeHtml(text) ==
  ReplaceAll(ReplaceAll(ReplaceAll(ReplaceAll(ReplaceAll(text,
    "&", Amp), "<", Lt), ">", Gt), "\"", Quot), "'", Apos)

(***************************************************************************)
(* themeConfigs                                                            *)
(***************************************************************************)
themeConfigs ==
  [dark |-> [bg |-> "#1e1e1e", headerBg |-> "#2d2d2d", lineNumColor |-> "#858585",
             borderColor |-> "#333333", titleColor |-> "#999999", shikiTheme |-> "dark-plus"],
   light |-> [bg |-> "#ffffff", headerBg |-> "#e8e8e8", lineNumColor |-> "#999999",
              borderColor |-> "#dddddd", titleColor |-> "#666666", shikiTheme |-> "light-plus"],
   monokai |-> [bg |-> "#272822", headerBg |-> "#1e1f1c", lineNumColor |-> "#75715e",
                borderColor |-> "#3e3d32", titleColor |-> "#a6a28c", shikiTheme |-> "monokai"],
   nord |-> [bg |-> "#2e3440", headerBg |-> "#3b4252", lineNumColor |-> "#4c566a",
             borderColor |-> "#4c566a", titleColor |-> "#7b88a1", shikiTheme |-> "nord"],
   dracula |-> [bg |-> "#282a36", headerBg |-> "#21222c", lineNumColor |-> "#6272a4",
                borderColor |-> "#44475a", titleColor |-> "#6272a4", shikiTheme |-> "dracula"]]

\* themeConfigs is an object literal, so a property read that misses the five
\* own keys continues along the prototype chain to Object.prototype.
ObjectPrototypeKeys == {"constructor", "toString", "valueOf", "hasOwnProperty", "__proto__"}

\* What reading bg, headerBg, ... of an inherited member (a function or
\* Object.prototype itself) gives: undefined for each of the six fields.
InheritedMember ==
  [bg |-> "undefined", headerBg |-> "undefined", lineNumColor |-> "undefined",
   borderColor |-> "undefined", titleColor |-> "undefined", shikiTheme |-> "undefined"]

\* themeConfigs[name] || themeConfigs.dark
ThemeLookup(name) ==
  IF name \in DOMAIN themeConfigs THEN themeConfigs[name]
  ELSE IF name \in ObjectPrototypeKeys THEN InheritedMember
  ELSE themeConfigs["dark"]

\* Object.values(themeConfigs).map(t => t.shikiTheme)
LoadedThemes == {themeConfigs[n].shikiTheme : n \in DOMAIN themeConfigs}

(***************************************************************************)
(* Text helpers of the composer and the save handler                       *)
(***************************************************************************)
\* String.prototype.split('\n'): the pieces between newlines, at least one.
RECURSIVE SplitLines(_)
SplitLines(code) ==
  IF \A i \in 1..Len(code) : code[i] # "\n" THEN <<code>>
  ELSE LET k == CHOOSE i \in 1..Len(code) :
                  code[i] = "\n" /\ \A j \in 1..(i - 1) : code[j] # "\n"
       IN <<SubSeq(code, 1, k - 1)>> \o SplitLines(SubSeq(code, k + 1, Len(code)))

\* path.basename: what follows the last separator.
Basename(p) ==
  IF \A i \in 1..Len(p) : p[i] # "/" THEN p
  ELSE LET k == CHOOSE i \in 1..Len(p) :
                  p[i] = "/" /\ \A j \in (i + 1)..Len(p) : p[j] # "/"
       IN SubSeq(p, k + 1, Len(p))

\* fileName.replace(/\.[^/.]+$/, ''): drops a final ".ext" whose ext is
\* non-empty and holds neither a slash nor a dot.
RemoveExtension(f) ==
  LET dots == {i \in 1..Len(f) : f[i] = "." /\ i < Len(f)
                 /\ \A j \in (i + 1)..Len(f) : f[j] \notin {"/", "."}}
  IN IF dots = {} THEN f
     ELSE SubSeq(f, 1, (CHOOSE i \in dots : TRUE) - 1)

CodesnapSuffix == <<"-", "c", "o", "d", "e", "s", "n", "a", "p">>
PngSuffix == <<".", "p", "n", "g">>
DefaultSaveName == <<"c", "o", "d", "e", "s", "n", "a", "p">>

DataUrlPrefix ==
  <<"d", "a", "t", "a", ":", "i", "m", "a", "g", "e", "/", "p", "n", "g", ";",
    "b", "a", "s", "e", "6", "4", ",">>

StartsWith(s, p) == Len(s) >= Len(p) /\ SubSeq(s, 1, Len(p)) = p

KeepDataUrlPrefix(data) == data

\* message.data.replace(/^data:image\/png;base64,/, '')
StripDataUrlPrefix(data) ==
  IF StartsWith(data, DataUrlPrefix)
  THEN SubSeq(data, Len(DataUrlPrefix) + 1, Len(data))
  ELSE data

B64Chars ==
  <<"A", "B", "C", "D", "E", "F", "G", "H", "I", "J", "K", "L", "M", "N", "O", "P",
    "Q", "R", "S", "T", "U", "V", "W", "X", "Y", "Z", "a", "b", "c", "d", "e", "f",
    "g", "h", "i", "j", "k", "l", "m", "n", "o", "p", "q", "r", "s", "t", "u", "v",
    "w", "x", "y", "z", "0", "1", "2", "3", "4", "5", "6", "7", "8", "9", "+", "/">>

B64Value(c) == (CHOOSE i \in 1..Len(B64Chars) : B64Chars[i] = c) - 1

IsB64Char(c) == \E i \in 1..Len(B64Chars) : B64Chars[i] = c

\* The sextets Buffer.from(s, 'base64') reads: it stops at the first '=' and
\* skips characters outside the alphabet.
RECURSIVE B64Sextets(_)
B64Sextets(s) ==
  IF s = <<>> \/ Head(s) = "=" THEN <<>>
  ELSE IF IsB64Char(Head(s)) THEN <<B64Value(Head(s))>> \o B64Sextets(Tail(s))
  ELSE B64Sextets(Tail(s))

RECURSIVE B64Bytes(_)
B64Bytes(v) ==
  IF Len(v) < 2 THEN <<>>
  ELSE LET b1 == v[1] * 4 + (v[2] \div 16)
       IN IF Len(v) = 2 THEN <<b1>>
          ELSE LET b2 == (v[2] % 16) * 16 + (v[3] \div 4)
               IN IF Len(v) = 3 THEN <<b1, b2>>
                  ELSE <<b1, b2, (v[3] % 4) * 64 + v[4]>>
                       \o B64Bytes(SubSeq(v, 5, Len(v)))

\* Buffer.from(base64, 'base64')
Base64Decode(s) == B64Bytes(B64Sextets(s))

(***************************************************************************)
(* getHighlightedHtml: the markup values                                   *)
(***************************************************************************)
PreOpen == <<"<pre style=\"margin:0\"><code>">>
PreClose == <<"</code></pre>">>

\* `<pre style="margin:0"><code>${escapeHtml(code)}</code></pre>`
FallbackMarkup(code) ==
  [kind |-> "fallback", text |-> PreOpen \o escapeHtml(code) \o PreClose,
   code |-> code, lang |-> "", theme |-> ""]

\* What shikiHighlighter.codeToHtml(code, {lang, theme}) returns: markup the
\* library derives from its three arguments.
ShikiMarkup(code, lang, theme) ==
  [kind |-> "shiki", text |-> <<>>, code |-> code, lang |-> lang, theme |-> theme]

NoMarkup == [kind |-> "none", text |-> <<>>, code |-> <<>>, lang |-> "", theme |-> ""]

(***************************************************************************)
(* buildWebviewHtml                                                        *)
(***************************************************************************)
LineNumbersHtmlFromOne(code, startLine, showLineNumbers) ==
  LET lines == SplitLines(code)
  IN IF showLineNumbers
     THEN [i \in 1..Len(lines) |-> [class |-> "line-number", text |-> startLine + i]]
     ELSE <<>>

\* lines.map((_, i) => `<div class="line-number">${startLine + i}</div>`)
LineNumbersHtml(code, startLine, showLineNumbers) ==
  LET lines == SplitLines(code)
  IN IF showLineNumbers
     THEN [i \in 1..Len(lines) |-> [class |-> "line-number", text |-> startLine + (i - 1)]]
     ELSE <<>>

\* ${showLineNumbers ? `<div class="line-numbers">${lineNumbersHtml}</div>` : ''}
Gutter(lineNumbersHtml, showLineNumbers) ==
  IF showLineNumbers
  THEN <<[class |-> "line-numbers", entries |-> lineNumbersHtml]>>
  ELSE <<>>

\* The composed document, field by field in the order of the template.
buildWebviewHtml(params) ==
  LET config == ThemeLookup(params.theme)
      isDark == params.theme # "light"
      lineNumbersHtml ==
        LineNumbersHtml(params.code, params.startLine, params.showLineNumbers)
  IN [cspNonce |-> params.nonce,
      cspSource |-> params.cspSource,
      scriptNonce |-> params.nonce,
      scriptSrc |-> params.html2canvasUri,
      bodyBg |-> IF isDark THEN "#0d1117" ELSE "#f5f5f5",
      containerBg |-> config.bg,
      boxShadow |-> IF params.shadow THEN "0 20px 68px rgba(0,0,0,0.55)" ELSE "",
      headerBg |-> config.headerBg,
      titleColor |-> config.titleColor,
      lineNumColor |-> config.lineNumColor,
      borderColor |-> config.borderColor,
      windowHeader |-> IF params.windowControls
                       THEN <<[class |-> "window-title", text |-> escapeHtml(params.fileName)]>>
                       ELSE <<>>,
      gutter |-> Gutter(lineNumbersHtml, params.showLineNumbers),
      codeContent |-> params.highlightedHtml,
      inlineScriptNonce |-> params.nonce,
      fileNameForJs |-> RemoveExtension(params.fileName) \o CodesnapSuffix]

NoDocument == [none |-> TRUE]

(***************************************************************************)
(* Inputs the host supplies                                                *)
(***************************************************************************)
\* vscode.window.activeTextEditor: none, or a document with a selection.
NoEditor == [open |-> FALSE]

EditorStates ==
  { [open |-> TRUE, fileName |-> <<"/", "a", ".", "t", "s">>, languageId |-> "typescript",
     text |-> <<"x", "\n", "<">>, selEmpty |-> FALSE, selText |-> <<"<">>, selLine |-> 1],
    [open |-> TRUE, fileName |-> <<"/", "b", ".", "r", "s">>, languageId |-> "rust",
     text |-> <<"&">>, selEmpty |-> TRUE, selText |-> <<>>, selLine |-> 0] }

\* vscode.workspace.getConfiguration('codesnap'), read afresh by every capture.
Configs ==
  { [theme |-> "dark", showLineNumbers |-> TRUE, windowControls |-> TRUE, shadow |-> TRUE],
    [theme |-> "light", showLineNumbers |-> FALSE, windowControls |-> FALSE, shadow |-> FALSE] }

\* Values getNonce can return (it draws 32 characters at random).
Nonces == {"nonceA", "nonceB"}

\* langs passed to createHighlighter, as far as the editor states use them.
PreloadedLangs == {"javascript", "typescript", "python", "json", "html", "css", "markdown", "bash"}

\* Base64 payloads canvas.toDataURL('image/png') can carry after the prefix.
Payloads == { <<"A", "A", "A", "A">>, <<"/", "w", "=", "=">> }

\* Paths the save dialog can return.
Paths == {"/out/shot.png"}

ErrorTexts == {"Failed to capture image: e", "Clipboard access denied. Use Save as PNG instead."}

TaskIds == 1..MaxCaptures
HandlerIds == 1..MaxMessages
ClickIds == 1..MaxClicks

(***************************************************************************)
(* State                                                                   *)
(***************************************************************************)
VARIABLES
  currentPanel,      \* 0 for undefined, else an index into panels
  shikiHighlighter,  \* 0 for null, else an index into instances
  panels,            \* every webview panel created so far
  instances,         \* every highlighter instance created so far
  tasks,             \* the capture commands, each with its locals and position
  handlers,          \* the invocations of the onDidReceiveMessage handler
  notifications,     \* bag of the messages shown with showErrorMessage/showInformationMessage
  written,           \* the writes writeFile has completed, each with the payload it came from
  deactivated,       \* deactivate() has run
  clicks,            \* the runs of saveImage/copyImage in the script of the open surface
  pin,               \* inputs of the pure functions
  pout               \* the last result of a pure function

vars == <<currentPanel, shikiHighlighter, panels, instances, tasks, handlers,
          notifications, written, deactivated, clicks, pin, pout>>

hostVars == <<currentPanel, shikiHighlighter, panels, instances, tasks, handlers,
              notifications, written, deactivated>>

pureVars == <<pin, pout>>

clientVars == <<clicks>>

IdleTask ==
  [pc |-> "idle", kind |-> "", code |-> <<>>, language |-> "", fileName |-> <<>>,
   startLine |-> 0, cfg |-> [theme |-> "", showLineNumbers |-> FALSE,
                             windowControls |-> FALSE, shadow |-> FALSE],
   html |-> NoMarkup, failed |-> FALSE, inst |-> 0, after |-> 0]

\* A command that has returned; its locals are gone.
DoneTask == [IdleTask EXCEPT !.pc = "done"]

IdleHandler ==
  [pc |-> "idle", command |-> "", data |-> <<>>, payload |-> <<>>,
   fileName |-> <<>>, text |-> "", prompts |-> 0, defaultName |-> <<>>,
   uri |-> "", bytes |-> <<>>, reuses |-> 0]

\* A handler invocation that is over (returned, or rejected); its locals are gone.
Ended(pc, command, prompts, uri) ==
  [IdleHandler EXCEPT !.pc = pc, !.command = command, !.prompts = prompts, !.uri = uri]

\* A run of saveImage or copyImage: where it stands, how its steps went and
\* the messages it has posted.
IdleClick ==
  [pc |-> "idle", action |-> "", raster |-> "", blob |-> "", clip |-> "", msgs |-> <<>>]

\* A run whose document was replaced or closed under it: the script is gone.
UnloadedClick == [IdleClick EXCEPT !.pc = "unloaded"]

NoPureInput == [text |-> <<>>, theme |-> "dark", startLine |-> 1, showLineNumbers |-> TRUE]
NoPureOutput == [op |-> "none"]

HostInit ==
  /\ currentPanel = 0
  /\ shikiHighlighter = 0
  /\ panels = <<>>
  /\ instances = <<>>
  /\ tasks = [t \in TaskIds |-> IdleTask]
  /\ handlers = [h \in HandlerIds |-> IdleHandler]
  /\ notifications = EmptyBag
  /\ written = {}
  /\ deactivated = FALSE

ClientInit == clicks = [k \in ClickIds |-> IdleClick]

Init ==
  /\ HostInit
  /\ ClientInit
  /\ pin = NoPureInput
  /\ pout = NoPureOutput

Notify(kind, text, src) ==
  notifications (+) SetToBag({[kind |-> kind, text |-> text, src |-> src]})

(***************************************************************************)
(* getHighlightedHtml, segment by segment                                  *)
(***************************************************************************)
Return(html) == [status |-> "return", html |-> html, inst |-> 0]
Throw == [status |-> "throw", html |-> NoMarkup, inst |-> 0]
Await(what, inst) == [status |-> what, html |-> NoMarkup, inst |-> inst]

\* Lines 46-49: codeToHtml on whatever the shared handle holds now.  The
\* call throws on a null handle, on a language or theme the instance has not
\* loaded, and whenever the library fails inside (libraryOk = FALSE).
CodeToHtml(h, insts, code, lang, themeName, libraryOk) ==
  IF h = 0 THEN Throw
  ELSE IF insts[h].disposed \/ lang \notin insts[h].loaded
          \/ ThemeLookup(themeName).shikiTheme \notin LoadedThemes \/ ~libraryOk
       THEN Throw
       ELSE Return(ShikiMarkup(code, lang, ThemeLookup(themeName).shikiTheme))

\* Lines 35-49, up to the next await.
AfterCreate(h, insts, code, lang, themeName, libraryOk) ==
  IF h = 0 THEN Throw
  ELSE IF lang \notin insts[h].loaded THEN Await("awaitLoad", h)
       ELSE CodeToHtml(h, insts, code, lang, themeName, libraryOk)

\* Lines 27-33, up to the next await.
Entry(h, insts, code, lang, themeName, requireOk, libraryOk) ==
  IF ~requireOk THEN Throw
  ELSE IF h = 0 THEN Await("awaitCreate", 0)
       ELSE AfterCreate(h, insts, code, lang, themeName, libraryOk)

OuterCatchRethrow(o, code) == o

\* Lines 50-53: the catch around the whole body.
OuterCatch(o, code) ==
  IF o.status = "throw" THEN Return(FallbackMarkup(code)) ELSE o

\* Lines 40-43: the catch around loadLanguage.
InnerCatch(code) == Return(FallbackMarkup(code))

\* The task after a segment of getHighlightedHtml ended with outcome o
\* (before the catch) and the catch turned it into c.
Settle(tk, o, c) ==
  [tk EXCEPT !.pc = CASE c.status = "return" -> "awaitHtml"
                      [] c.status = "throw" -> "rejected"
                      [] OTHER -> c.status,
             !.html = c.html,
             !.inst = c.inst,
             !.failed = tk.failed \/ o.status = "throw"]

(***************************************************************************)
(* The capture commands                                                    *)
(***************************************************************************)
\* Line 125: when getHighlightedHtml has returned, the rest of
\* showCodeSnapPanel is queued as a microtask.  The queue is drained before
\* the host delivers the next command, promise settlement, message or
\* dispose event, so none of those runs while a continuation is queued.
ContinuationQueued == \E t \in TaskIds : tasks[t].pc = "awaitHtml"

NextIdle(t) ==
  /\ tasks[t].pc = "idle"
  /\ \A u \in TaskIds : u < t => tasks[u].pc # "idle"

\* The task that last set the document of the open surface, 0 if none is open.
LastSetter == IF currentPanel = 0 THEN 0 ELSE panels[currentPanel].setBy

\* Line 27: require('shiki') caches the module once it has loaded, so it
\* cannot fail after a call that got as far as createHighlighter.
ModuleCached ==
  \/ Len(instances) > 0
  \/ \E t \in TaskIds : tasks[t].pc \in {"awaitCreate", "awaitLoad"}

\* showCodeSnapPanel lines 119-125 with the entry of getHighlightedHtml.
BeginCapture(t, kind, code, language, fileName, startLine, c, requireOk, libraryOk) ==
  LET tk == [IdleTask EXCEPT !.kind = kind, !.code = code, !.language = language,
                             !.fileName = fileName, !.startLine = startLine,
                             !.cfg = c, !.after = LastSetter]
      o == Entry(shikiHighlighter, instances, code, language, c.theme, requireOk, libraryOk)
  IN /\ requireOk \/ ~ModuleCached
     /\ tasks' = [tasks EXCEPT ![t] = Settle(tk, o, OuterCatch(o, code))]
     /\ UNCHANGED notifications

Abort(t, kind, text) ==
  /\ tasks' = [tasks EXCEPT ![t] = [IdleTask EXCEPT !.pc = "aborted"]]
  /\ notifications' = Notify("error", text, <<"task", t>>)

\* Lines 68-90: the command 'codesnap.captureSelection'.
captureSelection(t, e, c, requireOk, libraryOk) ==
  /\ ~ContinuationQueued
  /\ ~deactivated
  /\ NextIdle(t)
  /\ IF ~e.open THEN Abort(t, "selection", "No active editor")
     ELSE IF e.selEmpty
          THEN Abort(t, "selection", "No code selected. Select some code first.")
          ELSE BeginCapture(t, "selection", e.selText, e.languageId,
                            Basename(e.fileName), e.selLine + 1, c, requireOk, libraryOk)
  /\ UNCHANGED <<currentPanel, shikiHighlighter, panels, instances, handlers,
                 written, deactivated, pureVars, clientVars>>

\* Lines 92-107: the command 'codesnap.captureFile'.
captureFile(t, e, c, requireOk, libraryOk) ==
  /\ ~ContinuationQueued
  /\ ~deactivated
  /\ NextIdle(t)
  /\ IF ~e.open THEN Abort(t, "file", "No active editor")
     ELSE BeginCapture(t, "file", e.text, e.languageId,
                       Basename(e.fileName), 1, c, requireOk, libraryOk)
  /\ UNCHANGED <<currentPanel, shikiHighlighter, panels, instances, handlers,
                 written, deactivated, pureVars, clientVars>>

\* Line 29: createHighlighter resolves; the new instance is stored in the
\* shared handle and the body runs on to the next await.
CreateResolve(t, libraryOk) ==
  /\ ~ContinuationQueued
  /\ tasks[t].pc = "awaitCreate"
  /\ LET tk == tasks[t]
         insts == Append(instances, [loaded |-> PreloadedLangs, disposed |-> FALSE])
         h == Len(insts)
         o == AfterCreate(h, insts, tk.code, tk.language, tk.cfg.theme, libraryOk)
     IN /\ instances' = insts
        /\ shikiHighlighter' = h
        /\ tasks' = [tasks EXCEPT ![t] = Settle(tk, o, OuterCatch(o, tk.code))]
  /\ UNCHANGED <<currentPanel, panels, handlers, notifications, written,
                 deactivated, pureVars, clientVars>>

\* Line 29: createHighlighter rejects.
CreateReject(t) ==
  /\ ~ContinuationQueued
  /\ tasks[t].pc = "awaitCreate"
  /\ tasks' = [tasks EXCEPT ![t] = Settle(@, Throw, OuterCatch(Throw, @.code))]
  /\ UNCHANGED <<currentPanel, shikiHighlighter, panels, instances, handlers,
                 notifications, written, deactivated, pureVars, clientVars>>

\* Line 39: loadLanguage resolves on the instance it was called on; lines
\* 46-49 then use whatever the shared handle holds now.
LoadResolve(t, libraryOk) ==
  /\ ~ContinuationQueued
  /\ tasks[t].pc = "awaitLoad"
  /\ LET tk == tasks[t]
         insts == [instances EXCEPT ![tk.inst].loaded = @ \cup {tk.language}]
         o == CodeToHtml(shikiHighlighter, insts, tk.code, tk.language, tk.cfg.theme, libraryOk)
     IN /\ instances' = insts
        /\ tasks' = [tasks EXCEPT ![t] = Settle(tk, o, OuterCatch(o, tk.code))]
  /\ UNCHANGED <<currentPanel, shikiHighlighter, panels, handlers, notifications,
                 written, deactivated, pureVars, clientVars>>

\* Line 39: loadLanguage rejects (language not supported).
LoadReject(t) ==
  /\ ~ContinuationQueued
  /\ tasks[t].pc = "awaitLoad"
  /\ tasks' = [tasks EXCEPT ![t] = Settle(@, Throw, InnerCatch(@.code))]
  /\ UNCHANGED <<currentPanel, shikiHighlighter, panels, instances, handlers,
                 notifications, written, deactivated, pureVars, clientVars>>

\* What a capture asked for, kept with the panel it was shown on.
Request(tk) ==
  [kind |-> tk.kind, code |-> tk.code, language |-> tk.language,
   fileName |-> tk.fileName, startLine |-> tk.startLine, cfg |-> tk.cfg]

NoRequest == [none |-> TRUE]

\* A capture repeats the one shown on panel pn when it is the same command on
\* the same document under the same configuration, issued after that one
\* had set its document.
Repeats(pn, tk) == pn.setBy = tk.after /\ pn.request = Request(tk)

\* The document a repeated capture finds on the open panel, if it is one.
RepeatOf(cur, ps, tk) ==
  IF cur # 0 /\ Repeats(ps[cur], tk) THEN ps[cur].html ELSE NoDocument

NewPanel(t, tk, doc, rep) ==
  [live |-> TRUE, html |-> doc, reveals |-> 0, handlers |-> 1, setBy |-> t,
   request |-> Request(tk), repeatOf |-> rep]

SurfaceAlwaysCreate(cur, ps, t, tk, doc) ==
  [currentPanel |-> Len(ps) + 1,
   panels |-> Append(ps, NewPanel(t, tk, doc, RepeatOf(cur, ps, tk)))]

SurfaceAttachEachTime(cur, ps, t, tk, doc) ==
  IF cur = 0
  THEN [currentPanel |-> Len(ps) + 1,
        panels |-> Append(ps, NewPanel(t, tk, doc, RepeatOf(cur, ps, tk)))]
  ELSE [currentPanel |-> cur,
        panels |-> [ps EXCEPT ![cur] =
           [ps[cur] EXCEPT !.reveals = @ + 1, !.html = doc, !.setBy = t,
                           !.handlers = @ + 1,
                           !.request = Request(tk),
                           !.repeatOf = RepeatOf(cur, ps, tk)]]]

\* Lines 127-193: create the panel with its dispose and message handlers when
\* none is open, reveal the open one otherwise; then set the document.
\* setBy, request and repeatOf record which capture set the document and, for
\* a repeated capture, the document it replaced.
Surface(cur, ps, t, tk, doc) ==
  IF cur = 0
  THEN [currentPanel |-> Len(ps) + 1,
        panels |-> Append(ps, NewPanel(t, tk, doc, RepeatOf(cur, ps, tk)))]
  ELSE [currentPanel |-> cur,
        panels |-> [ps EXCEPT ![cur] =
           [ps[cur] EXCEPT !.reveals = @ + 1, !.html = doc, !.setBy = t,
                           !.request = Request(tk),
                           !.repeatOf = RepeatOf(cur, ps, tk)]]]

\* The parameters showCodeSnapPanel hands to buildWebviewHtml (lines 181-193).
WebviewParams(tk, nonce) ==
  [highlightedHtml |-> tk.html, code |-> tk.code, fileName |-> tk.fileName,
   startLine |-> tk.startLine, theme |-> tk.cfg.theme,
   showLineNumbers |-> tk.cfg.showLineNumbers,
   windowControls |-> tk.cfg.windowControls, shadow |-> tk.cfg.shadow,
   html2canvasUri |-> "webview:/node_modules/html2canvas/dist/html2canvas.min.js",
   nonce |-> nonce, cspSource |-> "webview:"]

\* The runs of the embedded script once its document is gone: those under
\* way stop where they stand and never post.
Unload(cs) ==
  [k \in ClickIds |->
     IF cs[k].pc \in {"rasterizing", "toBlob", "clipboard"} THEN UnloadedClick ELSE cs[k]]

\* showCodeSnapPanel after `await getHighlightedHtml(...)`, lines 127-193.
\* Assigning webview.html a different document (line 181) loads it in place
\* of the one shown, script included.
showCodeSnapPanel(t, nonce) ==
  /\ tasks[t].pc = "awaitHtml"
  /\ LET doc == buildWebviewHtml(WebviewParams(tasks[t], nonce))
         r == Surface(currentPanel, panels, t, tasks[t], doc)
     IN /\ currentPanel' = r.currentPanel
        /\ panels' = r.panels
        /\ clicks' = IF currentPanel # 0 /\ panels[currentPanel].html = doc
                     THEN clicks ELSE Unload(clicks)
  /\ tasks' = [tasks EXCEPT ![t] = DoneTask]
  /\ UNCHANGED <<shikiHighlighter, instances, handlers, notifications, written,
                 deactivated, pureVars>>

\* A disposed panel: its webview and document are gone.
DisposedPanel ==
  [live |-> FALSE, html |-> NoDocument, reveals |-> 0, handlers |-> 0,
   setBy |-> 0, request |-> NoRequest, repeatOf |-> NoDocument]

\* Lines 141-143: the user closes the panel; onDidDispose clears the handle.
DisposePanel(p) ==
  /\ ~ContinuationQueued
  /\ p \in 1..Len(panels)
  /\ panels[p].live
  /\ panels' = [panels EXCEPT ![p] = DisposedPanel]
  /\ currentPanel' = 0
  /\ clicks' = Unload(clicks)
  /\ UNCHANGED <<shikiHighlighter, instances, tasks, handlers, notifications,
                 written, deactivated, pureVars>>

\* Lines 419-424.  The host disposes the command and message subscriptions
\* with the extension, so no command or message starts afterwards.
deactivate ==
  /\ ~ContinuationQueued
  /\ ~deactivated
  /\ deactivated' = TRUE
  /\ IF shikiHighlighter # 0
     THEN /\ instances' = [instances EXCEPT ![shikiHighlighter].disposed = TRUE]
          /\ shikiHighlighter' = 0
     ELSE UNCHANGED <<instances, shikiHighlighter>>
  /\ UNCHANGED <<currentPanel, panels, tasks, handlers, notifications, written, pureVars, clientVars>>

(***************************************************************************)
(* The onDidReceiveMessage handler, lines 146-169                          *)
(***************************************************************************)
\* The messages the embedded script of a document posts (lines 372-404).
ScriptMessages(doc) ==
  {[command |-> "copy", data |-> <<>>, payload |-> <<>>, fileName |-> <<>>, text |-> ""]}
  \cup {[command |-> "error", data |-> <<>>, payload |-> <<>>, fileName |-> <<>>, text |-> x]
          : x \in ErrorTexts}
  \cup {[command |-> "save", data |-> DataUrlPrefix \o b, payload |-> b,
         fileName |-> doc.fileNameForJs, text |-> ""] : b \in Payloads}

\* Only the script of a live panel posts messages.
PostedBy(p) == IF panels[p].live THEN ScriptMessages(panels[p].html) ELSE {}

NextIdleHandler(h) ==
  /\ handlers[h].pc = "idle"
  /\ \A g \in HandlerIds : g < h => handlers[g].pc # "idle"

\* `${message.fileName || 'codesnap'}.png`
DefaultName(fileName) ==
  (IF fileName = <<>> THEN DefaultSaveName ELSE fileName) \o PngSuffix

\* The handler invocations one message of panel p starts, h being the first:
\* one for every handler attached to the webview of p.
Invoked(h, p) == h..(h + panels[p].handlers - 1)

NotifyEach(kind, text, H) ==
  notifications (+) SetToBag({[kind |-> kind, text |-> text, src |-> <<"handler", g>>] : g \in H})

\* A message of panel p arrives and every handler attached to its webview
\* runs up to its first await.  reuses records how often the panel had been
\* revealed for a later capture when the message arrived.
ReceiveMessage(h, p, m) ==
  /\ ~ContinuationQueued
  /\ ~deactivated
  /\ NextIdleHandler(h)
  /\ p \in 1..Len(panels)
  /\ m \in PostedBy(p)
  /\ Invoked(h, p) \subseteq HandlerIds
  /\ LET hd == [IdleHandler EXCEPT !.command = m.command, !.data = m.data,
                                   !.payload = m.payload, !.fileName = m.fileName,
                                   !.text = m.text, !.reuses = panels[p].reveals]
         Each(rec) == [g \in HandlerIds |-> IF g \in Invoked(h, p) THEN rec ELSE handlers[g]]
     IN CASE m.command = "copy" ->
               /\ handlers' = Each(Ended("done", m.command, 0, ""))
               /\ notifications' =
                    NotifyEach("info", "Screenshot copied to clipboard!", Invoked(h, p))
          [] m.command = "save" /\ m.data # <<>> ->
               /\ handlers' = Each([hd EXCEPT !.pc = "dialog", !.prompts = 1,
                                              !.defaultName = DefaultName(m.fileName)])
               /\ UNCHANGED notifications
          [] m.command = "error" ->
               /\ handlers' = Each(Ended("done", m.command, 0, ""))
               /\ notifications' = NotifyEach("error", m.text, Invoked(h, p))
          [] OTHER ->
               /\ handlers' = Each(Ended("done", m.command, 0, ""))
               /\ UNCHANGED notifications
  /\ UNCHANGED <<currentPanel, shikiHighlighter, panels, instances, tasks, written,
                 deactivated, pureVars, clientVars>>

\* Lines 158-160: the dialog returns a path; the payload is decoded and
\* writeFile is called.
DialogConfirm(h, uri) ==
  /\ ~ContinuationQueued
  /\ handlers[h].pc = "dialog"
  /\ handlers' = [handlers EXCEPT ![h] =
        [handlers[h] EXCEPT !.pc = "writing", !.uri = uri,
                            !.bytes = Base64Decode(StripDataUrlPrefix(handlers[h].data))]]
  /\ UNCHANGED <<currentPanel, shikiHighlighter, panels, instances, tasks,
                 notifications, written, deactivated, pureVars, clientVars>>

\* Line 158: the dialog returns undefined.
DialogDismiss(h) ==
  /\ ~ContinuationQueued
  /\ handlers[h].pc = "dialog"
  /\ handlers' = [handlers EXCEPT ![h] = Ended("dismissed", "save", handlers[h].prompts, "")]
  /\ UNCHANGED <<currentPanel, shikiHighlighter, panels, instances, tasks,
                 notifications, written, deactivated, pureVars, clientVars>>

\* Lines 160-161: writeFile resolves, then the success notification.
WriteResolve(h) ==
  /\ ~ContinuationQueued
  /\ handlers[h].pc = "writing"
  /\ written' = written \cup {[uri |-> handlers[h].uri, bytes |-> handlers[h].bytes,
                               payload |-> handlers[h].payload, by |-> h]}
  /\ handlers' = [handlers EXCEPT ![h] = Ended("done", "save", handlers[h].prompts, handlers[h].uri)]
  /\ notifications' = Notify("info", "Screenshot saved to", <<"handler", h>>)
  /\ UNCHANGED <<currentPanel, shikiHighlighter, panels, instances, tasks,
                 deactivated, pureVars, clientVars>>

\* Line 160: writeFile rejects; nothing in the handler catches it, so the
\* promise the handler returned rejects.
WriteReject(h) ==
  /\ ~ContinuationQueued
  /\ handlers[h].pc = "writing"
  /\ handlers' = [handlers EXCEPT ![h] = Ended("rejected", "save", handlers[h].prompts, handlers[h].uri)]
  /\ UNCHANGED <<currentPanel, shikiHighlighter, panels, instances, tasks,
                 notifications, written, deactivated, pureVars, clientVars>>

(***************************************************************************)
(* The embedded script of the document, lines 364-405                      *)
(***************************************************************************)
ErrorMessage(x) ==
  [command |-> "error", data |-> <<>>, payload |-> <<>>, fileName |-> <<>>, text |-> x]

CaptureFailed == ErrorMessage("Failed to capture image: e")
ClipboardDenied == ErrorMessage("Clipboard access denied. Use Save as PNG instead.")

\* vscode.postMessage by run k, which ends with it.
Post(k, m, field, how) ==
  clicks' = [clicks EXCEPT ![k] =
     [pc |-> "done", action |-> clicks[k].action,
      raster |-> IF field = "raster" THEN how ELSE clicks[k].raster,
      blob |-> IF field = "blob" THEN how ELSE clicks[k].blob,
      clip |-> IF field = "clip" THEN how ELSE clicks[k].clip,
      msgs |-> Append(clicks[k].msgs, m)]]

NextIdleClick(k) ==
  /\ clicks[k].pc = "idle"
  /\ \A j \in ClickIds : j < k => clicks[j].pc # "idle"

\* Lines 341-342, 367-370, 374, 388: a button is pressed; saveImage or
\* copyImage calls captureElement and awaits html2canvas.
Trigger(k, a) ==
  /\ NextIdleClick(k)
  /\ currentPanel # 0
  /\ clicks' = [clicks EXCEPT ![k] = [IdleClick EXCEPT !.pc = "rasterizing", !.action = a]]
  /\ UNCHANGED <<hostVars, pureVars>>

\* html2canvas resolves.  saveImage: toDataURL, then the 'save' message
\* (lines 375-380).  copyImage: toBlob is called with the callback and
\* copyImage returns (line 389).  A throw of toDataURL or toBlob
\* (convOk = FALSE) lands in the catch of lines 381-383, 401-403.
RasterResolve(k, b, convOk) ==
  /\ clicks[k].pc = "rasterizing"
  /\ IF ~convOk
     THEN Post(k, CaptureFailed, "blob", "threw")
     ELSE IF clicks[k].action = "save"
          THEN Post(k, [command |-> "save", data |-> DataUrlPrefix \o b, payload |-> b,
                        fileName |-> panels[currentPanel].html.fileNameForJs, text |-> ""],
                    "raster", "ok")
          ELSE clicks' = [clicks EXCEPT ![k].pc = "toBlob", ![k].raster = "ok"]
  /\ UNCHANGED <<hostVars, pureVars>>

\* html2canvas rejects, or throws inside captureElement: the catch of lines
\* 381-383, 401-403.
RasterReject(k) ==
  /\ clicks[k].pc = "rasterizing"
  /\ Post(k, CaptureFailed, "raster", "failed")
  /\ UNCHANGED <<hostVars, pureVars>>

\* Lines 389-399: the toBlob callback runs.  With a blob it calls
\* navigator.clipboard.write and awaits it; a throw before the await
\* (itemOk = FALSE) lands in the catch of lines 396-398.  With null it
\* returns: line 390 has no else.
BlobCallback(k, blobOk, itemOk) ==
  /\ clicks[k].pc = "toBlob"
  /\ IF ~blobOk
     THEN clicks' = [clicks EXCEPT ![k].pc = "done", ![k].blob = "null"]
     ELSE IF ~itemOk
          THEN Post(k, ClipboardDenied, "clip", "failed")
          ELSE clicks' = [clicks EXCEPT ![k].pc = "clipboard", ![k].blob = "ok"]
  /\ UNCHANGED <<hostVars, pureVars>>

\* Lines 392-395: the clipboard write resolves.
ClipResolve(k) ==
  /\ clicks[k].pc = "clipboard"
  /\ Post(k, [command |-> "copy", data |-> <<>>, payload |-> <<>>, fileName |-> <<>>,
              text |-> ""], "clip", "ok")
  /\ UNCHANGED <<hostVars, pureVars>>

\* Lines 396-398: the clipboard write rejects.
ClipReject(k) ==
  /\ clicks[k].pc = "clipboard"
  /\ Post(k, ClipboardDenied, "clip", "failed")
  /\ UNCHANGED <<hostVars, pureVars>>

(***************************************************************************)
(* The extension host                                                      *)
(***************************************************************************)
\* The configuration when the user has set nothing: the defaults of lines 120-123.
DefaultConfig ==
  [theme |-> "dark", showLineNumbers |-> TRUE, windowControls |-> TRUE, shadow |-> TRUE]

InFlight(t) == tasks[t].pc \in {"awaitCreate", "awaitLoad", "awaitHtml"}

NoCaptureInFlight == \A t \in TaskIds : ~InFlight(t)

\* A capture command is issued.
Command(cfgs) ==
  \E t \in TaskIds, e \in EditorStates \cup {NoEditor}, c \in cfgs,
     requireOk \in BOOLEAN, libraryOk \in BOOLEAN :
    \/ captureSelection(t, e, c, requireOk, libraryOk)
    \/ captureFile(t, e, c, requireOk, libraryOk)

\* A promise of the highlighter settles and the capture awaiting it runs on.
HighlighterStep ==
  \/ \E t \in TaskIds, libraryOk \in BOOLEAN : CreateResolve(t, libraryOk)
  \/ \E t \in TaskIds : CreateReject(t)
  \/ \E t \in TaskIds, libraryOk \in BOOLEAN : LoadResolve(t, libraryOk)
  \/ \E t \in TaskIds : LoadReject(t)

SurfaceStep(nonces) == \E t \in TaskIds, nonce \in nonces : showCodeSnapPanel(t, nonce)

UserClosesPanel == \E p \in 1..Len(panels) : DisposePanel(p)

\* A message of a surface is delivered, or a promise of the handler settles.
MessageStep ==
  \/ \E h \in HandlerIds, p \in 1..Len(panels) :
       \E m \in PostedBy(p) : ReceiveMessage(h, p, m)
  \/ \E h \in HandlerIds, uri \in Paths : DialogConfirm(h, uri)
  \/ \E h \in HandlerIds : DialogDismiss(h)
  \/ \E h \in HandlerIds : WriteResolve(h)
  \/ \E h \in HandlerIds : WriteReject(h)

\* The whole extension: commands, highlighter, surface, messages, shutdown.
Next ==
  \/ Command(Configs)
  \/ HighlighterStep
  \/ SurfaceStep(Nonces)
  \/ UserClosesPanel
  \/ deactivate
  \/ MessageStep

Spec == Init /\ [][Next]_vars

\* Overlapping capture commands under the default configuration, without
\* messages from the surface.
CaptureNext ==
  \/ Command({DefaultConfig})
  \/ HighlighterStep
  \/ SurfaceStep({"nonceA"})
  \/ UserClosesPanel
  \/ deactivate

CaptureSpec == Init /\ [][CaptureNext]_vars

\* Capture commands issued one after the other, each after the one before
\* has finished, under every configuration and nonce.
SuccessiveNext ==
  \/ (NoCaptureInFlight /\ Command(Configs))
  \/ HighlighterStep
  \/ SurfaceStep(Nonces)
  \/ UserClosesPanel
  \/ deactivate

SuccessiveSpec == Init /\ [][SuccessiveNext]_vars

\* Messages of the surface, with capture commands issued one after the other
\* under the default configuration.
MessageNext ==
  \/ (NoCaptureInFlight /\ Command({DefaultConfig}))
  \/ HighlighterStep
  \/ SurfaceStep({"nonceA"})
  \/ UserClosesPanel
  \/ MessageStep

MessageSpec == Init /\ [][MessageNext]_vars

\* A step of the embedded script of the open surface.
ClientStep ==
  \/ \E k \in ClickIds, a \in {"save", "copy"} : Trigger(k, a)
  \/ \E k \in ClickIds, b \in Payloads, convOk \in BOOLEAN : RasterResolve(k, b, convOk)
  \/ \E k \in ClickIds : RasterReject(k)
  \/ \E k \in ClickIds, blobOk \in BOOLEAN, itemOk \in BOOLEAN : BlobCallback(k, blobOk, itemOk)
  \/ \E k \in ClickIds : ClipResolve(k)
  \/ \E k \in ClickIds : ClipReject(k)

\* The embedded script at work on the surface, with whole-file captures
\* issued one after the other and a highlighter that does not fail.
ClientNext ==
  \/ (NoCaptureInFlight /\ \E t \in TaskIds, e \in EditorStates :
                              captureFile(t, e, DefaultConfig, TRUE, TRUE))
  \/ \E t \in TaskIds : CreateResolve(t, TRUE)
  \/ \E t \in TaskIds : LoadResolve(t, TRUE)
  \/ SurfaceStep({"nonceA"})
  \/ UserClosesPanel
  \/ ClientStep

ClientSpec == Init /\ [][ClientNext]_vars

(***************************************************************************)
(* The pure functions on drawn inputs                                      *)
(***************************************************************************)
Alphabet == {"&", "<", ">", "\"", "'", "a", "\n"}

RECURSIVE TextsOfLen(_)
TextsOfLen(n) ==
  IF n = 0 THEN {<<>>}
  ELSE {<<c>> \o s : c \in Alphabet, s \in TextsOfLen(n - 1)}

Texts == UNION {TextsOfLen(n) : n \in 0..MaxLen}

ThemeNames ==
  {"dark", "light", "monokai", "nord", "dracula", "solarized", "", "constructor"}

\* The two literal inputs the specification works through.
EscapeExample ==
  <<"5", " ", ">", " ", "3", " ", "&", "&", " ", "\"", "o", "k", "\"", " ", "<", " ",
    "'", "y", "e", "s", "'">>

SelectionExample ==
  <<"c", "o", "n", "s", "t", " ", "x", " ", "=", " ", "1", ";">>

Examples ==
  { [text |-> EscapeExample, theme |-> "dark", startLine |-> 1, showLineNumbers |-> TRUE],
    [text |-> SelectionExample, theme |-> "dark", startLine |-> 10, showLineNumbers |-> TRUE] }

PureInit ==
  /\ HostInit
  /\ ClientInit
  /\ pin \in [text : Texts, theme : ThemeNames, startLine : 1..MaxStart,
              showLineNumbers : BOOLEAN] \cup Examples
  /\ pout = NoPureOutput

ApplyEscapeHtml ==
  /\ pout' = [op |-> "escapeHtml", value |-> escapeHtml(pin.text)]
  /\ UNCHANGED <<pin, hostVars, clientVars>>

ApplyThemeLookup ==
  /\ pout' = [op |-> "themeLookup", value |-> ThemeLookup(pin.theme)]
  /\ UNCHANGED <<pin, hostVars, clientVars>>

ApplyBuildWebviewHtml ==
  /\ pout' = [op |-> "buildWebviewHtml",
              value |-> buildWebviewHtml(
                [highlightedHtml |-> FallbackMarkup(pin.text), code |-> pin.text,
                 fileName |-> <<"a", ".", "t", "s">>, startLine |-> pin.startLine,
                 theme |-> pin.theme, showLineNumbers |-> pin.showLineNumbers,
                 windowControls |-> TRUE, shadow |-> TRUE,
                 html2canvasUri |-> "webview:/node_modules/html2canvas/dist/html2canvas.min.js",
                 nonce |-> "nonceA", cspSource |-> "webview:"])]
  /\ UNCHANGED <<pin, hostVars, clientVars>>

PureNext == ApplyEscapeHtml \/ ApplyThemeLookup \/ ApplyBuildWebviewHtml

PureSpec == PureInit /\ [][PureNext]_vars

(***************************************************************************)
(* Properties                                                              *)
(***************************************************************************)
EscapeChar(c) ==
  CASE c = "&" -> Amp
    [] c = "<" -> Lt
    [] c = ">" -> Gt
    [] c = "\"" -> Quot
    [] c = "'" -> Apos
    [] OTHER -> <<c>>

\* The single pass that maps each character on its own.
RECURSIVE EscapeEach(_)
EscapeEach(s) == IF s = <<>> THEN <<>> ELSE EscapeChar(Head(s)) \o EscapeEach(Tail(s))

LivePanels == {p \in 1..Len(panels) : panels[p].live}

NotesFrom(src) == {n \in BagToSet(notifications) : n.src = src}

\* C1: at most one surface is live at any time, and it is the one the handle
\* names; a capture that reaches the surface step while a surface is open
\* creates none, sets its document on the open one and reveals it; a surface
\* is created only when none is open.
C1_SingleSurface ==
  [][ /\ LivePanels = (IF currentPanel = 0 THEN {} ELSE {currentPanel})
      /\ LivePanels' = (IF currentPanel' = 0 THEN {} ELSE {currentPanel'})
      /\ \A t \in TaskIds :
           (tasks[t].pc = "awaitHtml" /\ tasks'[t].pc = "done") =>
             IF currentPanel # 0
             THEN /\ Len(panels') = Len(panels)
                  /\ currentPanel' = currentPanel
                  /\ panels'[currentPanel].live
                  /\ panels'[currentPanel].setBy = t
                  /\ panels'[currentPanel].html.codeContent = tasks[t].html
                  /\ panels'[currentPanel].reveals = panels[currentPanel].reveals + 1
             ELSE /\ Len(panels') = Len(panels) + 1
                  /\ currentPanel' = Len(panels')
                  /\ panels'[currentPanel'].setBy = t
      /\ (Len(panels') > Len(panels) => LivePanels = {}) ]_vars

\* C1 witness: an open surface that a later capture has reused and revealed.
C1_Witness ==
  \E p \in LivePanels : panels[p].reveals >= 1 /\ Len(panels) = 1

\* C2: while the extension is active, at most one highlighter instance has
\* been created.
C2_OneHighlighter == ~deactivated => Len(instances) <= 1

\* C3: no capture ends with a rejected promise, and whenever a step of
\* getHighlightedHtml failed the markup it returns is the non-empty fallback
\* around the escaped code.
C3_NeverRejects ==
  \A t \in TaskIds :
    /\ tasks[t].pc # "rejected"
    /\ (tasks[t].pc = "awaitHtml" /\ tasks[t].failed) =>
         /\ tasks[t].html.kind = "fallback"
         /\ tasks[t].html.text # <<>>
         /\ tasks[t].html.text = PreOpen \o EscapeEach(tasks[t].code) \o PreClose
    /\ tasks[t].pc = "awaitHtml" => tasks[t].html.kind \in {"fallback", "shiki"}

\* C3 witness: a capture whose highlighting failed holds the fallback for a
\* text that needs escaping and is about to set its document.
C3_Witness ==
  \E t \in TaskIds :
    /\ tasks[t].pc = "awaitHtml" /\ tasks[t].failed
    /\ tasks[t].html.kind = "fallback"
    /\ tasks[t].code = <<"x", "\n", "<">>

\* C4: a save whose write failed has shown an error notification and no
\* success notification.
C4_WriteFailureNotified ==
  \A h \in HandlerIds :
    handlers[h].pc = "rejected" =>
      /\ \E n \in NotesFrom(<<"handler", h>>) : n.kind = "error"
      /\ \A n \in NotesFrom(<<"handler", h>>) : n.text # "Screenshot saved to"

SameButNonce(d, e) ==
  /\ d.cspSource = e.cspSource /\ d.scriptSrc = e.scriptSrc
  /\ d.bodyBg = e.bodyBg /\ d.containerBg = e.containerBg
  /\ d.boxShadow = e.boxShadow /\ d.headerBg = e.headerBg
  /\ d.titleColor = e.titleColor /\ d.lineNumColor = e.lineNumColor
  /\ d.borderColor = e.borderColor /\ d.windowHeader = e.windowHeader
  /\ d.gutter = e.gutter /\ d.codeContent = e.codeContent
  /\ d.fileNameForJs = e.fileNameForJs

RepeatedFileCapture(p) ==
  /\ panels[p].live
  /\ panels[p].repeatOf # NoDocument
  /\ panels[p].request.kind = "file"

WritesBy(h) == {w \in written : w.by = h}

SavedNotes(h) == {n \in NotesFrom(<<"handler", h>>) : n.text = "Screenshot saved to"}

\* C6: a save message is prompted for once, with '<fileName>.png' as the
\* default name; bytes are written only after a path was confirmed, they are
\* the decoded payload and go to the confirmed path, and the success
\* notification comes with the write; a dismissed prompt writes and announces
\* nothing.
C6_SaveFlow ==
  \A h \in HandlerIds :
    /\ handlers[h].command = "save" /\ handlers[h].pc # "idle" => handlers[h].prompts = 1
    /\ handlers[h].pc \in {"dialog", "writing"} =>
         /\ handlers[h].defaultName = handlers[h].fileName \o PngSuffix
         /\ handlers[h].data = DataUrlPrefix \o handlers[h].payload
    /\ handlers[h].pc = "writing" =>
         /\ handlers[h].uri \in Paths
         /\ handlers[h].bytes = Base64Decode(handlers[h].payload)
    /\ handlers[h].pc # "done" => WritesBy(h) = {} /\ SavedNotes(h) = {}
    /\ SavedNotes(h) # {} <=> WritesBy(h) # {}
    /\ \A w \in WritesBy(h) :
         /\ w.uri = handlers[h].uri /\ w.uri \in Paths
         /\ w.bytes = Base64Decode(w.payload)
    /\ Cardinality(WritesBy(h)) <= 1

\* C6 witness: a confirmed save has written the decoded bytes and announced it.
C6_Witness ==
  \E h \in HandlerIds :
    /\ handlers[h].pc = "done" /\ handlers[h].command = "save"
    /\ \E w \in WritesBy(h) : w.bytes = <<255>>
    /\ SavedNotes(h) # {}

OwnThemes == {"dark", "light", "monokai", "nord", "dracula"}

Defined(profile) ==
  \A f \in {"bg", "headerBg", "lineNumColor", "borderColor", "titleColor", "shikiTheme"} :
    profile[f] # "undefined"

\* C7: every theme name resolves to a profile with all six values defined:
\* the row of that name for the five themes, the dark row for any other name;
\* the composer uses the same profile.
C7_ThemeTotal ==
  LET expected == IF pin.theme \in OwnThemes THEN themeConfigs[pin.theme]
                  ELSE themeConfigs["dark"]
  IN /\ pout.op = "themeLookup" => pout.value = expected /\ Defined(pout.value)
     /\ pout.op = "buildWebviewHtml" =>
          /\ pout.value.containerBg = expected.bg
          /\ pout.value.headerBg = expected.headerBg
          /\ pout.value.lineNumColor = expected.lineNumColor
          /\ pout.value.borderColor = expected.borderColor
          /\ pout.value.titleColor = expected.titleColor

EscapeExampleEscaped ==
  <<"5", " ", "&", "g", "t", ";", " ", "3", " ", "&", "a", "m", "p", ";", "&", "a",
    "m", "p", ";", " ", "&", "q", "u", "o", "t", ";", "o", "k", "&", "q", "u", "o",
    "t", ";", " ", "&", "l", "t", ";", " ", "&", "#", "0", "3", "9", ";", "y", "e",
    "s", "&", "#", "0", "3", "9", ";">>

\* C8: escapeHtml gives what the single pass over the characters gives, its
\* result holds no literal <, >, " or ', and the worked example escapes as
\* written.
C8_EscapeSinglePass ==
  pout.op = "escapeHtml" =>
    /\ pout.value = EscapeEach(pin.text)
    /\ \A i \in 1..Len(pout.value) : pout.value[i] \notin {"<", ">", "\"", "'"}
    /\ pin.text = EscapeExample => pout.value = EscapeExampleEscaped

\* C8 witness: a text holding a character that an earlier replacement
\* produces has been escaped.
C8_Witness ==
  /\ pout.op = "escapeHtml"
  /\ pin.text = <<"<", "&", "'">>
  /\ pout.value = Lt \o Amp \o Apos

LineCount(text) == 1 + Cardinality({i \in 1..Len(text) : text[i] = "\n"})

\* C9: for a non-empty text, with line numbers on the composed document has
\* one gutter whose entries are startLine, startLine+1, ..., one per line of
\* the text; with line numbers off it has no gutter and no entries.
C9_Gutter ==
  (pout.op = "buildWebviewHtml" /\ pin.text # <<>>) =>
    IF pin.showLineNumbers
    THEN /\ Len(pout.value.gutter) = 1
         /\ Len(pout.value.gutter[1].entries) = LineCount(pin.text)
         /\ \A i \in 1..LineCount(pin.text) :
              pout.value.gutter[1].entries[i].text = pin.startLine + (i - 1)
    ELSE pout.value.gutter = <<>>

\* C9 witness: a three-line text numbered from line 2.
C9_Witness ==
  /\ pout.op = "buildWebviewHtml"
  /\ pin.showLineNumbers /\ pin.startLine = 2
  /\ pin.text = <<"a", "\n", "\n">>
  /\ Len(pout.value.gutter[1].entries) = 3

\* C10: once deactivate has run and no capture is in flight any more, the
\* shared handle is empty and every highlighter instance created is disposed.
C10_Released ==
  (deactivated /\ NoCaptureInFlight) =>
    /\ shikiHighlighter = 0
    /\ \A i \in 1..Len(instances) : instances[i].disposed

\* C12: every open surface has exactly one message handler attached, however
\* often it has been reused; a message of the surface starts one handler
\* invocation, and that invocation reacts once: one information notification
\* for 'copy', one save dialog and no notification yet for 'save', one error
\* notification carrying the text for 'error'.
C12_OneHandler ==
  [][ /\ \A p \in 1..Len(panels') : panels'[p].live => panels'[p].handlers = 1
      /\ \A h, g \in HandlerIds :
           (/\ handlers[h].pc = "idle" /\ handlers'[h].pc # "idle"
            /\ handlers[g].pc = "idle" /\ handlers'[g].pc # "idle") => h = g
      /\ \A h \in HandlerIds :
           (handlers[h].pc = "idle" /\ handlers'[h].pc # "idle") =>
             CASE handlers'[h].command = "copy" ->
                    /\ handlers'[h].prompts = 0
                    /\ notifications' = notifications (+)
                         SetToBag({[kind |-> "info", text |-> "Screenshot copied to clipboard!",
                                    src |-> <<"handler", h>>]})
               [] handlers'[h].command = "save" ->
                    /\ handlers'[h].prompts = 1
                    /\ notifications' = notifications
               [] handlers'[h].command = "error" ->
                    /\ handlers'[h].prompts = 0
                    /\ BagCardinality(notifications') = BagCardinality(notifications) + 1
                    /\ \E x \in ErrorTexts :
                         notifications' = notifications (+)
                           SetToBag({[kind |-> "error", text |-> x, src |-> <<"handler", h>>]})
               [] OTHER -> FALSE ]_vars

\* C12 witness: a save message that arrived on a surface already reused by a
\* later capture is being handled, with one dialog open and one handler
\* attached.
C12_Witness ==
  \E h \in HandlerIds :
    /\ handlers[h].pc = "dialog" /\ handlers[h].reuses >= 1 /\ handlers[h].prompts = 1
    /\ currentPanel # 0 /\ panels[currentPanel].handlers = 1
    /\ \A g \in HandlerIds \ {h} : handlers[g].pc = "idle"

\* C11: a run of saveImage or copyImage posts nothing before its client
\* steps are over, and once they are it has posted exactly one message:
\* 'save' after a rasterization that succeeded, 'copy' after a clipboard
\* write that succeeded, 'error' after a step that failed.
C11_OneMessage ==
  \A k \in ClickIds :
    /\ clicks[k].pc # "done" => clicks[k].msgs = <<>>
    /\ clicks[k].pc = "done" =>
         /\ Len(clicks[k].msgs) = 1
         /\ LET m == clicks[k].msgs[1]
            IN CASE m.command = "save" ->
                      clicks[k].action = "save" /\ clicks[k].raster = "ok"
                 [] m.command = "copy" ->
                      /\ clicks[k].action = "copy" /\ clicks[k].raster = "ok"
                      /\ clicks[k].blob = "ok" /\ clicks[k].clip = "ok"
                 [] m.command = "error" ->
                      "failed" \in {clicks[k].raster, clicks[k].clip} \/ clicks[k].blob = "threw"
                 [] OTHER -> FALSE

\* The capture commands that have run to their end and set a document.
Finished == {t \in TaskIds : tasks[t].pc = "done"}

\* C13: once no capture command is awaiting the highlighter any more, the
\* open surface shows the document of the most recently issued of the
\* commands that finished (commands are issued in the order of their ids).
C13_LatestShown ==
  (NoCaptureInFlight /\ currentPanel # 0) =>
    \A t \in Finished : t <= panels[currentPanel].setBy

====
